---------------------------- MODULE Spec2Model ----------------------------
(***************************************************************************)
(* A model of the tree-chunked repository of src/tree_chunker.py: the      *)
(* chunk codec (ChunkEncoder / ChunkDecoder), the layer-tree writer        *)
(* (ChunkWriter) and the random-access reader (ChunkReader).               *)
(*                                                                         *)
(* Scale.  The source works with 2^size_2-byte chunks, 32-byte SHA-256     *)
(* names and 16-byte AES blocks.  The model keeps every formula of the     *)
(* source and shrinks these three numbers (size_2, upper_entry_size,       *)
(* AES_block_size) so that a chunk holds 4 bytes and an upper chunk holds  *)
(* 2 names; the valid block sizes (4096, 8192) shrink to (2, 4), which     *)
(* is the geometry of size_2 = 13.                                         *)
(*                                                                         *)
(* Values.  Every byte is a tuple, so that data bytes and the bytes of a   *)
(* name can sit in one buffer and be compared:                             *)
(*   <<>>          the zero byte                                           *)
(*   << <<>> >>    a non-zero data byte                                    *)
(*   << d >>       the first byte of the SHA-256 of the chunk bytes d      *)
(* SHA-256 is a free constructor (no collisions), HMAC and AES-CBC are     *)
(* symbolic terms over their arguments; the 16-byte content IV keeps the   *)
(* key and, of the hashed content, only which bytes are zero, data or      *)
(* name bytes (nothing in the source compares an IV with its content).     *)
(***************************************************************************)
EXTENDS Integers, Sequences, FiniteSets, TLC

\* ------------------------------------------------------------------ bounds
MaxTotal == 9      \* most bytes handed to write / write_zeros in one run
MaxCalls == 3      \* most write / write_zeros calls in one run
MaxWrite == 5      \* longest data argument of one write call
MaxZeros == 9      \* largest argument of one write_zeros call
MaxStoreTotal == 5  \* longest stream of a store that is changed or cached
MaxStoreCalls == 2  \* most write calls before a reader with a cache
MaxCached == 2      \* largest max_cached of a ChunkCacheMemory
MaxReads == 2       \* most read_at calls on a reader with a cache
MaxSets == 4        \* most set calls on a ChunkCacheMemory of its own
MaxKeys == 3        \* number of different names handed to set and get
MaxSize2 == 12      \* largest size_2 a layer shape is computed for
MaxFile == 4        \* longest file handed to a HoleReader, in extents' units
MaxChunk == 2       \* largest max_size handed to a section's read
     \* most read_at calls on a reader with a cache
MaxRead  == 2      \* largest size argument of read_at, besides the stream lengths

\* --------------------------------------------------------- program numbers
size_2           == 2     \* ChunkWriter(size_2, ...): chunk size 2^size_2
upper_entry_size == 2     \* sizeof(sha256 hash), scaled
AES_block_size   == 2     \* AES.block_size, scaled
NUM_LAYER_SLOTS  == 16    \* layer_shape(size_2, 16)
sha256_size      == 32    \* upper_entry_size of the program, unscaled
OFFSET_BITS      == 64    \* the shift the top slot has to exceed
INTRO_MAX_CHUNK  == 256   \* ChunkReader.__init__: self._max_chunk_size = 256
BLOCK_SIZES      == {2, 4} \* the block sizes as_intro accepts, scaled
compress_data    == FALSE \* the writer runs with compress_data=False

Min(a, b) == IF a < b THEN a ELSE b

RECURSIVE Pow2(_)
Pow2(n) == IF n = 0 THEN 1 ELSE 2 * Pow2(n - 1)

\* x >> n
ShiftRight(x, n) == x \div Pow2(n)

\* a & b on non-negative integers
RECURSIVE BitAnd(_, _)
BitAnd(a, b) ==
    IF a = 0 \/ b = 0 THEN 0
    ELSE (a % 2) * (b % 2) + 2 * BitAnd(a \div 2, b \div 2)

\* bin(x).count('1')
RECURSIVE PopCount(_)
PopCount(x) ==
    IF x < 0 THEN PopCount(0 - x)
    ELSE IF x = 0 THEN 0 ELSE (x % 2) + PopCount(x \div 2)

\* ------------------------------------------------------------------- bytes
ZeroByte == << >>
DataByte == << << >> >>
Bytes    == {ZeroByte, DataByte}

\* bytes([0] * n), bytearray(n), b'\0' * n
Zeros(n) == [i \in 1..n |-> ZeroByte]

\* an integer field of a packed struct, as one unit of the packed bytes
IntT(n) == [i \in 1..n |-> << >>]
IntOf(t) == Len(t)

\* data[a:b] of Python, 0-based and clipped
Slice(data, a, b) == SubSeq(data, a + 1, Min(b, Len(data)))

MAGIC     == << << >>, << >> >>
VERSION   == 1
ZERO_HASH == Zeros(upper_entry_size)
None      == << >>

\* the keys; the unlock key and the raw repository key are fixed
unlock_key   == << IntT(1) >>
repo_key_raw == << IntT(2) >>

\* hashlib.sha256(x).digest(): upper_entry_size bytes, the first one
\* carrying the digested value, the others a fixed non-zero filler
sha256(x) == [i \in 1..upper_entry_size |-> IF i = 1 THEN << x >> ELSE DataByte]

\* hmac.new(key, msg, sha256).digest()[:16]
hmac16(key, msg) == << key, msg >>

\* the IV of ChunkEncoder.wrap_up: hmac(key, sha256(content)) cut to 16 bytes
NameByte == << << >>, << >> >>
content_iv_of(key, content) ==
    << key, [i \in 1..Len(content) |->
                IF content[i] \in Bytes THEN content[i] ELSE NameByte] >>

repo_key  == << sha256(repo_key_raw) >>
intro_key == hmac16(unlock_key, IntT(1))
layer_key == hmac16(repo_key, IntT(2))

\* AES.new(key, MODE_CBC, iv).encrypt(p) and .decrypt(c)
aes_encrypt(key, iv, plain) == << key, iv, plain >>
aes_decrypt(key, iv, cipher) ==
    IF cipher[1] = key /\ cipher[2] = iv
    THEN cipher[3]
    ELSE [i \in 1..Len(cipher[3]) |-> << cipher, key, iv >>]
aes_len(cipher) == Len(cipher[3])

zero_pad(data, align) ==
    IF Len(data) % align # 0
    THEN data \o Zeros(align - 1 - ((Len(data) - 1) % align))
    ELSE data

\* ------------------------------------------------------------- layer shape
\* an entry_cover_size that counts one bit too many
entry_cover_size_wide(shape) == Pow2(shape.shift + 1)

entry_cover_size(shape) == Pow2(shape.shift)

entry_offset(shape, offset) ==
    BitAnd(ShiftRight(offset, shape.shift), shape.mask) * shape.entry_size

\* layer_shape with the entry size as a parameter; shape of layer l is
\* element l + 1 of the result
layer_shape_of_entries(size, num_layers, entry_size) ==
    LET chunk_size          == Pow2(size)
        upper_chunk_entries == chunk_size \div entry_size
        upper_chunk_numbits == PopCount(upper_chunk_entries)
    IN  [l \in 1..num_layers |->
            IF l = 1
            THEN [shift |-> 0, mask |-> chunk_size - 1, entry_size |-> 1]
            ELSE [shift      |-> size + (l - 2) * upper_chunk_numbits,
                  mask       |-> upper_chunk_entries - 1,
                  entry_size |-> entry_size]]

layer_shape_of(size, num_layers, entry_size) ==
    LET chunk_size          == Pow2(size)
        upper_chunk_entries == chunk_size \div entry_size
        upper_chunk_numbits == PopCount(upper_chunk_entries - 1)
    IN  [l \in 1..num_layers |->
            IF l = 1
            THEN [shift |-> 0, mask |-> chunk_size - 1, entry_size |-> 1]
            ELSE [shift      |-> size + (l - 2) * upper_chunk_numbits,
                  mask       |-> upper_chunk_entries - 1,
                  entry_size |-> entry_size]]

layer_shape(size, num_layers) ==
    layer_shape_of(size, num_layers, upper_entry_size)

\* ------------------------------------------------------------ ChunkEncoder
ChunkEncoder(max_size) == [max_size |-> max_size, buffer |-> << >>]

free(enc)     == enc.max_size - Len(enc.buffer)

\* an is_full that is true one byte early
is_full_early(enc) == free(enc) <= 1

is_full(enc)  == free(enc) = 0
is_empty(enc) == free(enc) = enc.max_size

\* a write that reports the count and leaves the buffer as it was
encoder_write_none(enc, data) ==
    [enc |-> enc, written |-> Min(Len(data), free(enc))]

\* ChunkEncoder.write: the encoder after the write, and the count written
encoder_write(enc, data) ==
    LET written == Min(Len(data), free(enc))
    IN  [enc     |-> [enc EXCEPT !.buffer = @ \o SubSeq(data, 1, written)],
         written |-> written]

\* the bytes of a chunk: header fields followed by the ciphertext
chunk_bytes(compressed, content_len, content_iv, encrypted) ==
    << MAGIC, IntT(VERSION), IntT(compressed), IntT(content_len),
       content_iv, encrypted >>

\* ChunkEncoder.wrap_up (compress is False: the zlib branch is not taken)
encoder_wrap_up(enc, chunk_key, compress) ==
    LET content        == enc.buffer
        padded_content == zero_pad(content, AES_block_size)
        content_iv     == content_iv_of(chunk_key, content)
        chunk_data     == chunk_bytes(0, Len(content), content_iv,
                              aes_encrypt(chunk_key, content_iv, padded_content))
    IN  [hash |-> sha256(chunk_data), data |-> chunk_data]


\* ------------------------------------------------------------- ChunkWriter
\* The writer's mutable state, threaded through the methods below:
\*   layers     self._layers, element l + 1 is the open encoder of layer l
\*   persisted  the calls of persist_chunk, in order (layer -1: the intro)
\*   seals      one record per chunk sealed by wrap_up_layer
\*   err        the exception that ended the call, "" if none
max_size == Pow2(size_2)

writer_layer_shape == layer_shape(size_2, NUM_LAYER_SLOTS)

\* a writer that hashes one zero byte too few for its all-zero chunk
all_zero_chunk_hash_short ==
    encoder_wrap_up(encoder_write(ChunkEncoder(max_size),
                                  Zeros(max_size - 1)).enc,
                    layer_key, compress_data).hash

\* ChunkWriter.__init__: the name of a chunk of max_size zero bytes
all_zero_chunk_hash ==
    encoder_wrap_up(encoder_write(ChunkEncoder(max_size), Zeros(max_size)).enc,
                    layer_key, compress_data).hash

NewWriter == [layers |-> << >>, persisted |-> << >>, seals |-> << >>, err |-> "",
              residuals |-> << >>]

\* a persist_chunk that stores nothing
persist_chunk_lost(w, layer, chunk_hash, chunk) == w

persist_chunk(w, layer, chunk_hash, chunk) ==
    [w EXCEPT !.persisted =
        Append(@, [layer |-> layer, name |-> chunk_hash, data |-> chunk])]

\* a wrap_up_layer that hands the name of an all-zero chunk on as it is
upper_ref_name_kept(chunk_hash) == chunk_hash

\* wrap_up_layer: the name that stands for a sealed chunk, ZERO_HASH for
\* the all-zero chunk
upper_ref_name(chunk_hash) ==
    IF chunk_hash = all_zero_chunk_hash THEN ZERO_HASH ELSE chunk_hash

RECURSIVE wrap_up_layer(_, _, _)
RECURSIVE write_layer(_, _, _)
RECURSIVE write_layer_loop(_, _, _, _)
RECURSIVE write_layer_zeros(_, _, _)

\* ChunkWriter.wrap_up_layer: the writer after the call and the returned name
wrap_up_layer(w, layer, write_upper_ref) ==
    IF is_empty(w.layers[layer + 1])
    THEN [w |-> w, chunk_hash |-> None]
    ELSE
        LET \* self._layers[layer] = ChunkEncoder(self._max_size)
            renewed(w3, chunk_hash) ==
                [w          |-> [w3 EXCEPT !.layers[layer + 1] =
                                    ChunkEncoder(max_size)],
                 chunk_hash |-> chunk_hash]
            \* if write_upper_ref: self.write_layer(layer+1, chunk_hash)
            referred(w2, chunk_hash) ==
                renewed(IF write_upper_ref
                        THEN write_layer(w2, layer + 1, chunk_hash)
                        ELSE w2,
                        chunk_hash)
            \* the record of this seal
            noted(w1, sealed, chunk_hash) ==
                referred([w1 EXCEPT !.seals = Append(@,
                             [layer  |-> layer,
                              hash   |-> sealed.hash,
                              ref    |-> chunk_hash,
                              upper  |-> write_upper_ref,
                              stored |-> Len(w1.persisted)])],
                         chunk_hash)
            \* the all-zero chunk is renamed, any other chunk is persisted
            named(sealed, chunk_hash) ==
                noted(IF sealed.hash = all_zero_chunk_hash
                      THEN w
                      ELSE persist_chunk(w, layer, chunk_hash, sealed.data),
                      sealed, chunk_hash)
            wrapped(sealed) == named(sealed, upper_ref_name(sealed.hash))
        IN  wrapped(encoder_wrap_up(w.layers[layer + 1], layer_key,
                                    compress_data))

\* the while loop of write_layer
write_layer_loop(w, layer, data, offset) ==
    LET \* offset += chunk.write(...); if offset == data_size: break
        written(w1, wr) ==
            IF offset + wr.written = Len(data)
            THEN [w1 EXCEPT !.layers[layer + 1] = wr.enc]
            ELSE write_layer_loop([w1 EXCEPT !.layers[layer + 1] = wr.enc],
                                  layer, data, offset + wr.written)
        with_chunk(w1, chunk) ==
            written(w1, encoder_write(chunk,
                            Slice(data, offset, offset + free(chunk))))
        sealed(w1) == with_chunk(w1, w1.layers[layer + 1])
    IN  sealed(IF is_full(w.layers[layer + 1])
               THEN wrap_up_layer(w, layer, TRUE).w
               ELSE w)

\* ChunkWriter.write_layer
write_layer(w, layer, data) ==
    write_layer_loop(IF layer >= Len(w.layers)
                     THEN [w EXCEPT !.layers = Append(@, ChunkEncoder(max_size))]
                     ELSE w,
                     layer, data, 0)

\* ChunkWriter.write_layer_zeros: the writer after the call and the
\* returned residual
write_layer_zeros(w, layer, zeros) ==
    LET of_shape(shape, cover) ==
            IF zeros < cover
            THEN [w |-> w, zeros |-> zeros]
            ELSE
                LET \* the second fill: the residual of the layers above
                    residual(w3, zeros3, entries_free, entries_needed) ==
                        IF w3.err # ""
                        THEN [w |-> w3, zeros |-> zeros3]
                        ELSE IF zeros3 > 0
                        THEN IF entries_free >= entries_needed
                             THEN [w |-> [w3 EXCEPT !.layers[layer + 1] =
                                      encoder_write(@,
                                        Zeros(entries_needed * shape.entry_size)).enc],
                                   zeros |-> zeros3 - entries_needed * cover]
                             ELSE [w |-> [w3 EXCEPT !.err = "AssertionError"],
                                   zeros |-> zeros3]
                        ELSE [w |-> w3, zeros |-> zeros3]
                    returned(up) ==
                        residual([up.w EXCEPT !.residuals =
                                     Append(@, [layer |-> layer,
                                                zeros |-> up.zeros])],
                                 up.zeros,
                                 free(up.w.layers[layer + 1]) \div shape.entry_size,
                                 up.zeros \div cover)
                    \* zeros = self.write_layer_zeros(layer+1, zeros)
                    above(w2, zeros1) ==
                        returned(write_layer_zeros(w2, layer + 1, zeros1))
                    \* if chunk.is_full: wrap_up_layer
                    filled(w1, zeros1) ==
                        above(IF is_full(w1.layers[layer + 1])
                              THEN wrap_up_layer(w1, layer, TRUE).w
                              ELSE w1,
                              zeros1)
                    \* the first fill
                    fill_with(w0, fill) ==
                        IF zeros > 0
                        THEN filled([w0 EXCEPT !.layers[layer + 1] =
                                        encoder_write(@,
                                          Zeros(fill * shape.entry_size)).enc],
                                    zeros - fill * cover)
                        ELSE filled(w0, zeros)
                    with_layer(w0) ==
                        fill_with(w0,
                            Min(free(w0.layers[layer + 1]) \div shape.entry_size,
                                zeros \div cover))
                IN  with_layer(IF layer >= Len(w.layers)
                               THEN [w EXCEPT !.layers =
                                        Append(@, ChunkEncoder(max_size))]
                               ELSE w)
        with_shape(shape) == of_shape(shape, entry_cover_size(shape))
    IN  with_shape(writer_layer_shape[layer + 1])

\* ChunkWriter.write, without the total_size update
writer_write(w, data) == write_layer(w, 0, data)

\* ChunkWriter.write_zeros, without the total_size update
writer_write_zeros(w, size) ==
    LET remaining(r) ==
            IF r.w.err = "" /\ r.zeros # 0
            THEN [r.w EXCEPT !.err = "AssertionError"]
            ELSE r.w
    IN  remaining(write_layer_zeros(w, 0, size))

\* the for loop of wrap_up over range(n), n = len(self._layers) at loop entry;
\* bound tells whether chunk_hash has been assigned
RECURSIVE wrap_up_loop(_, _, _, _, _)
wrap_up_loop(w, layer, n, chunk_hash, bound) ==
    IF layer >= n
    THEN [w |-> w, chunk_hash |-> chunk_hash, bound |-> bound]
    ELSE
        LET next(r) == wrap_up_loop(r.w, layer + 1, n, r.chunk_hash, TRUE)
        IN  next(wrap_up_layer(w, layer, ~(layer = Len(w.layers) - 1)))

\* struct.pack("<16slllQl16s32s", ...): one unit per field
pack_intro(num_layers, total, block_size, chunk_hash) ==
    << MAGIC, IntT(VERSION), IntT(size_2), IntT(num_layers), IntT(total),
       IntT(block_size), repo_key, chunk_hash >>

INTRO_FIELDS == 8

\* a pad that is one byte too long
wrap_up_pad_long(total, bs) ==
    IF total % bs # 0 THEN bs - ((total - 1) % bs) ELSE 0

\* the length of the pad written by wrap_up
wrap_up_pad(total, bs) ==
    IF total % bs # 0 THEN bs - 1 - ((total - 1) % bs) ELSE 0

\* ChunkWriter.wrap_up: the writer, total_size and returned intro hash
writer_wrap_up(w, total, bs) ==
    LET failed(w2, total1, e) ==
            [w |-> [w2 EXCEPT !.err = e],
             total_size |-> total1, intro_hash |-> None]
        persisted_intro(w2, total1, sealed) ==
            [w |-> persist_chunk(w2, -1, sealed.hash, sealed.data),
             total_size |-> total1, intro_hash |-> sealed.hash]
        \* intro_chunk = ChunkEncoder(len(intro)); written = ...write(intro)
        encoded(w2, total1, intro, intro_chunk) ==
            IF intro_chunk.written # Len(intro)
            THEN failed(w2, total1, "AssertionError")
            ELSE persisted_intro(w2, total1,
                     encoder_wrap_up(intro_chunk.enc, intro_key, FALSE))
        packed(w2, total1, intro) ==
            encoded(w2, total1, intro,
                    encoder_write(ChunkEncoder(Len(intro)), intro))
        \* after the for loop over the layers
        looped(lp, total1) ==
            IF ~lp.bound
            THEN failed(lp.w, total1, "UnboundLocalError")
            ELSE IF lp.chunk_hash = None
            THEN failed(lp.w, total1, "struct.error")
            ELSE packed(lp.w, total1,
                        pack_intro(Len(lp.w.layers), total1, bs, lp.chunk_hash))
        padded(w1, total1) ==
            looped(wrap_up_loop(w1, 0, Len(w1.layers), None, FALSE), total1)
    IN  IF total % bs # 0
        THEN padded(writer_write(w, Zeros(wrap_up_pad(total, bs))),
                    total + wrap_up_pad(total, bs))
        ELSE padded(w, total)

\* ------------------------------------------------------------ ChunkDecoder
\* ChunkLoaderFile.open_stream over the persisted chunks
has_chunk(store, chunk_hash) ==
    \E i \in 1..Len(store) : store[i].name = chunk_hash

open_stream(store, chunk_hash) ==
    store[CHOOSE i \in 1..Len(store) : store[i].name = chunk_hash].data

\* stream.read(max_chunk_size) of the ciphertext
read_encrypted(encrypted, max_chunk_size) ==
    << encrypted[1], encrypted[2],
       SubSeq(encrypted[3], 1, Min(Len(encrypted[3]), max_chunk_size)) >>

\* a comparison that lets every digest pass
compare_digest_lax(a, b) == TRUE

\* hmac.compare_digest(a, b)
compare_digest(a, b) == a = b

\* ChunkDecoder.from_encrypted_stream
from_encrypted_stream(chunk_stream, content_hash, chunk_key, max_chunk_size) ==
    LET fail(e) == [err |-> e, content |-> << >>]
        \* content = decrypted[:content_len]
        cut(decrypted, content_len) ==
            [err     |-> "",
             content |-> IF Len(decrypted) > content_len
                         THEN SubSeq(decrypted, 1, content_len)
                         ELSE decrypted]
        checked(content_iv, content_len, encrypted) ==
            IF ~compare_digest(
                   sha256(<< chunk_stream[1], chunk_stream[2], chunk_stream[3],
                             chunk_stream[4], chunk_stream[5], encrypted >>),
                   content_hash)
            THEN fail("Invalid hash")
            ELSE IF aes_len(encrypted) % AES_block_size # 0
            THEN fail("Invalid chunk size")
            ELSE IF aes_len(encrypted) < content_len
            THEN fail("Unexpected content length")
            ELSE cut(aes_decrypt(chunk_key, content_iv, encrypted), content_len)
        header(magic, version, compressed) ==
            IF magic # MAGIC THEN fail("Invalid chunk magic")
            ELSE IF version # VERSION THEN fail("Short version")
            ELSE IF compressed \notin {0, 1}
            THEN fail("Invalid compression flag")
            ELSE checked(chunk_stream[5], IntOf(chunk_stream[4]),
                         read_encrypted(chunk_stream[6], max_chunk_size))
    IN  header(chunk_stream[1], IntOf(chunk_stream[2]), IntOf(chunk_stream[3]))

\* ChunkDecoder.as_intro
as_intro(content) ==
    LET fail(e) == [err |-> e, size_2 |-> 0, num_layers |-> 0, total_size |-> 0,
                    block_size |-> 0, repo_key |-> << >>,
                    top_chunk_hash |-> << >>]
    IN  IF Len(content) # INTRO_FIELDS THEN fail("Short header")
        ELSE IF content[1] # MAGIC
             THEN fail("Invalid repo magic. Wrong unlock key?")
        ELSE IF IntOf(content[2]) # VERSION THEN fail("Invalid repo version")
        ELSE IF IntOf(content[6]) \notin BLOCK_SIZES
             THEN fail("Invalid block size")
        ELSE [err |-> "", size_2 |-> IntOf(content[3]),
              num_layers |-> IntOf(content[4]),
              total_size |-> IntOf(content[5]),
              block_size |-> IntOf(content[6]),
              repo_key |-> content[7], top_chunk_hash |-> content[8]]

\* ------------------------------------------------------------ chunk caches
\* ChunkCacheNone() and ChunkCacheMemory(max_cached) as one kind of record:
\*   cache_keys  self._cache_keys, the keys in insertion order
\*   cache       self._cache, the dict from content hash to content
EmptyDict == [k \in {} |-> << >>]

ChunkCacheNone ==
    [memory |-> FALSE, max_cached |-> 0, cache_keys |-> << >>,
     cache |-> EmptyDict]

ChunkCacheMemory(max_cached) ==
    [memory |-> TRUE, max_cached |-> max_cached, cache_keys |-> << >>,
     cache |-> EmptyDict]

\* del d[key] and d[key] = value of a dict
dict_del(d, key) == [k \in (DOMAIN d) \ {key} |-> d[k]]
dict_set(d, key, value) ==
    [k \in (DOMAIN d) \cup {key} |-> IF k = key THEN value ELSE d[k]]

\* the while loop of ChunkCacheMemory.set; del of a missing key raises
RECURSIVE cache_evict(_)
cache_evict(c) ==
    IF Len(c.cache_keys) > c.max_cached
    THEN
        LET popped(key, c1) ==
                IF key \in DOMAIN c1.cache
                THEN cache_evict([c1 EXCEPT !.cache = dict_del(@, key)])
                ELSE [cache |-> c1, err |-> "KeyError"]
        IN  popped(Head(c.cache_keys), [c EXCEPT !.cache_keys = Tail(@)])
    ELSE [cache |-> c, err |-> ""]

\* ChunkCacheNone.set and ChunkCacheMemory.set
cache_set(c, content_hash, content) ==
    IF ~c.memory
    THEN [cache |-> c, err |-> ""]
    ELSE
        LET evicted(r) ==
                IF r.err # ""
                THEN r
                ELSE [cache |-> [r.cache EXCEPT
                                    !.cache = dict_set(@, content_hash, content),
                                    !.cache_keys = Append(@, content_hash)],
                      err   |-> ""]
        IN  evicted(cache_evict(c))

\* ChunkCacheNone.get and ChunkCacheMemory.get
cache_get(c, content_hash) ==
    IF c.memory /\ content_hash \in DOMAIN c.cache
    THEN c.cache[content_hash]
    ELSE None

\* ------------------------------------------------------------- ChunkReader
\* The reader, threaded through its methods:
\*   cache   self._cache
\*   opened  history: the names handed to the loader's open_stream during
\*           the call in progress
NoReader ==
    [open |-> FALSE, err |-> "", total_size |-> 0, block_size |-> 0,
     top_chunk_hash |-> << >>, layer_key |-> << >>, max_chunk_size |-> 0,
     num_layers |-> 0, size_2 |-> 0, cache |-> ChunkCacheNone,
     opened |-> << >>]

\* a from_plain that takes its arguments in the wrong order
from_plain_swapped(content_hash, content) ==
    [err |-> "", content |-> content_hash]

\* ChunkDecoder.from_plain
from_plain(content_hash, content) == [err |-> "", content |-> content]

\* ChunkReader.load_chunk: the decoded chunk and the reader after the call
load_chunk(rdr, store, chunk_hash, chunk_key) ==
    LET logged == [rdr EXCEPT !.opened = Append(@, chunk_hash)]
        \* self._cache.set(chunk.content_hash, chunk.content)
        kept(chunk, set) ==
            [err     |-> set.err,
             content |-> IF set.err = "" THEN chunk.content ELSE << >>,
             rdr     |-> [logged EXCEPT !.cache = set.cache]]
        decoded(chunk) ==
            IF chunk.err # ""
            THEN [err |-> chunk.err, content |-> << >>, rdr |-> logged]
            ELSE kept(chunk, cache_set(rdr.cache, chunk_hash, chunk.content))
        \* if cached_data: return ChunkDecoder.from_plain(...)
        looked_up(cached_data) ==
            IF cached_data # << >>
            THEN [err     |-> "",
                  content |-> from_plain(chunk_hash, cached_data).content,
                  rdr     |-> rdr]
            ELSE IF ~has_chunk(store, chunk_hash)
            THEN [err |-> "FileNotFoundError", content |-> << >>,
                  rdr |-> logged]
            ELSE decoded(from_encrypted_stream(open_stream(store, chunk_hash),
                             chunk_hash, chunk_key, rdr.max_chunk_size))
    IN  looked_up(cache_get(rdr.cache, chunk_hash))

\* ChunkReader.__init__
ChunkReader(store, hash, key, cache) ==
    LET failed(e, rdr) ==
            [NoReader EXCEPT !.err = e, !.cache = rdr.cache,
                             !.opened = rdr.opened]
        parsed(intro, rdr) ==
            IF intro.err # "" THEN failed(intro.err, rdr)
            ELSE [open |-> TRUE, err |-> "",
                  total_size     |-> intro.total_size,
                  block_size     |-> intro.block_size,
                  top_chunk_hash |-> intro.top_chunk_hash,
                  layer_key      |-> hmac16(intro.repo_key, IntT(2)),
                  max_chunk_size |-> Pow2(intro.size_2) + 256,
                  num_layers     |-> intro.num_layers,
                  size_2         |-> intro.size_2,
                  cache          |-> rdr.cache,
                  opened         |-> rdr.opened]
        loaded(chunk) ==
            IF chunk.err # "" THEN failed(chunk.err, chunk.rdr)
            ELSE parsed(as_intro(chunk.content), chunk.rdr)
    IN  loaded(load_chunk([NoReader EXCEPT !.cache = cache,
                                           !.max_chunk_size = INTRO_MAX_CHUNK],
                          store, hash, hmac16(key, IntT(1))))

\* ZeroSource(size) and io.BytesIO(content) as one kind of record
ZeroSource(size) ==
    [zero |-> TRUE, size |-> size, remaining |-> size,
     content |-> << >>, pos |-> 0]
BytesIO(content) ==
    [zero |-> FALSE, size |-> 0, remaining |-> 0,
     content |-> content, pos |-> 0]

\* a seek that leaves the stream at its start
source_seek_start(src, offset) == [ok |-> TRUE, src |-> src]

\* seek; ok is FALSE when ZeroSource.seek's assertion fails
source_seek(src, offset) ==
    IF src.zero
    THEN [ok  |-> offset < src.size,
          src |-> [src EXCEPT !.remaining = src.size - offset]]
    ELSE [ok |-> TRUE, src |-> [src EXCEPT !.pos = offset]]

\* read(size): the bytes read
source_read(src, size) ==
    IF src.zero
    THEN Zeros(Min(size, src.remaining))
    ELSE Slice(src.content, src.pos, src.pos + size)

\* the for loop of get_chunk_stream, from layer down to 0
RECURSIVE chunk_stream_loop(_, _, _, _, _)
chunk_stream_loop(rdr, store, offset, layer, chunk_hash) ==
    LET fail(e, r) == [err |-> e, src |-> BytesIO(<< >>), rdr |-> r]
        \* chunk_hash = chunk_stream.read(32)
        descend(r, src, next) ==
            IF layer = 0 THEN [err |-> "", src |-> src, rdr |-> r]
            ELSE IF Len(next) # upper_entry_size
            THEN fail("Incomplete hash ref", r)
            ELSE chunk_stream_loop(r, store, offset, layer - 1, next)
        \* chunk_stream.seek(shape[layer].entry_offset(offset))
        positioned(r, sought) ==
            IF ~sought.ok THEN fail("AssertionError", r)
            ELSE descend(r, sought.src,
                         source_read(sought.src, upper_entry_size))
        opened(shapes, r, src) ==
            positioned(r, source_seek(src,
                              entry_offset(shapes[layer + 1], offset)))
        loaded(shapes, chunk) ==
            IF chunk.err # "" THEN fail(chunk.err, chunk.rdr)
            ELSE opened(shapes, chunk.rdr, BytesIO(chunk.content))
        with_shapes(shapes) ==
            IF chunk_hash = ZERO_HASH
            THEN opened(shapes, rdr,
                        ZeroSource(entry_cover_size(shapes[layer + 2])))
            ELSE loaded(shapes, load_chunk(rdr, store, chunk_hash,
                                           rdr.layer_key))
    IN  with_shapes(layer_shape(rdr.size_2, rdr.num_layers))

\* ChunkReader.get_chunk_stream
get_chunk_stream(rdr, store, offset) ==
    IF ~(offset < rdr.total_size)
    THEN [err |-> "AssertionError", src |-> BytesIO(<< >>), rdr |-> rdr]
    ELSE IF rdr.top_chunk_hash = ZERO_HASH
    THEN [err |-> "", src |-> ZeroSource(rdr.total_size), rdr |-> rdr]
    ELSE IF rdr.num_layers = 0
    THEN [err |-> "UnboundLocalError", src |-> BytesIO(<< >>), rdr |-> rdr]
    ELSE chunk_stream_loop(rdr, store, offset, rdr.num_layers - 1,
                           rdr.top_chunk_hash)

\* b''.join(snippets)
RECURSIVE join(_)
join(snippets) ==
    IF snippets = << >> THEN << >> ELSE Head(snippets) \o join(Tail(snippets))

\* the while loop of read_at; iterations counts the passes begun
RECURSIVE read_at_loop(_, _, _, _, _, _)
read_at_loop(rdr, store, offset, remaining, snippets, iterations) ==
    IF remaining = 0
    THEN [err |-> "", data |-> join(snippets), snippets |-> snippets,
          iterations |-> iterations, rdr |-> rdr]
    ELSE
        LET raised(e, r) ==
                [err |-> e, data |-> << >>, snippets |-> snippets,
                 iterations |-> iterations + 1, rdr |-> r]
            \* snippets.append(read)
            snippet(r, read) ==
                IF Len(read) = 0
                THEN raised("AssertionError", r)
                ELSE read_at_loop(r, store, offset + Len(read),
                                  remaining - Len(read),
                                  Append(snippets, read), iterations + 1)
            streamed(cs) ==
                IF cs.err # ""
                THEN raised(cs.err, cs.rdr)
                ELSE snippet(cs.rdr, source_read(cs.src, remaining))
        IN  streamed(get_chunk_stream(rdr, store, offset))

\* ChunkReader.read_at
read_at(rdr, store, offset, size) ==
    LET clipped(size1) ==
            IF ~(size1 > 0)
            THEN [err |-> "AssertionError", data |-> << >>,
                  snippets |-> << >>, iterations |-> 0, rdr |-> rdr]
            ELSE read_at_loop(rdr, store, offset, size1, << >>, 0)
    IN  IF offset >= rdr.total_size
        THEN [err |-> "", data |-> << >>, snippets |-> << >>,
              iterations |-> 0, rdr |-> rdr]
        ELSE clipped(IF offset + size >= rdr.total_size
                     THEN rdr.total_size - offset
                     ELSE size)

\* ------------------------------------------------------------ other objects
NoMem == [cache |-> ChunkCacheNone, err |-> "", sets |-> 0, got |-> None]

NoCtor == [size_2 |-> 0, num_layers |-> 0, shape |-> << >>, outcome |-> ""]

\* -------------------------------------------------------------- HoleReader
\* a file is a sequence of units, each "data" or "hole"; what is read is
\* counted, the bytes themselves are left out
ENXIO == "ENXIO"

\* os.lseek(fd, offset, os.SEEK_DATA): the next unit of data at or after
\* offset, ENXIO at or past the end and when only a hole follows
lseek_data(file, offset) ==
    IF \E j \in (offset + 1)..Len(file) : file[j] = "data"
    THEN [errno |-> "",
          pos   |-> (CHOOSE j \in (offset + 1)..Len(file) :
                        /\ file[j] = "data"
                        /\ \A k \in (offset + 1)..(j - 1) : file[k] # "data")
                    - 1]
    ELSE [errno |-> ENXIO, pos |-> 0]

\* os.lseek(fd, offset, os.SEEK_HOLE): the next hole at or after offset, the
\* end of the file when none follows, ENXIO at or past the end
lseek_hole(file, offset) ==
    IF offset >= Len(file)
    THEN [errno |-> ENXIO, pos |-> 0]
    ELSE IF \E j \in (offset + 1)..Len(file) : file[j] = "hole"
    THEN [errno |-> "",
          pos   |-> (CHOOSE j \in (offset + 1)..Len(file) :
                        /\ file[j] = "hole"
                        /\ \A k \in (offset + 1)..(j - 1) : file[k] # "hole")
                    - 1]
    ELSE [errno |-> "", pos |-> Len(file)]

NoSection == [all_zero |-> FALSE, remaining |-> 0, ended |-> TRUE]

NoHole == [pc |-> "closed", file |-> << >>, size |-> 0, offset |-> 0,
           eof |-> FALSE, in_data |-> FALSE, fdpos |-> 0,
           section |-> NoSection, sections |-> << >>, yielded |-> 0,
           consumed |-> 0]

\* HoleReader.detect_initial_mode on a seekable file
detect_initial_mode(file) ==
    LET sought(r) == r.errno = "" /\ r.pos = 0
    IN  sought(lseek_data(file, 0))

\* HoleReader(fname) on a seekable file
HoleReader(file) ==
    [NoHole EXCEPT !.pc = "start", !.file = file, !.size = Len(file),
                   !.in_data = detect_initial_mode(file)]

\* a detect_section_size that takes every section to reach the end of the
\* file
detect_section_size_eof(h) ==
    LET cut(r) == h.size - h.offset
    IN  cut(IF h.in_data THEN lseek_hole(h.file, h.offset)
                         ELSE lseek_data(h.file, h.offset))

\* HoleReader.detect_section_size on a seekable file
detect_section_size(h) ==
    LET cut(r) == (IF r.errno = ENXIO THEN h.size ELSE r.pos) - h.offset
    IN  cut(IF h.in_data THEN lseek_hole(h.file, h.offset)
                         ELSE lseek_data(h.file, h.offset))

\* HoleReader.advance
advance(h, size) ==
    [h EXCEPT !.offset = @ + size,
              !.eof = IF h.offset + size >= h.size THEN TRUE ELSE @]

\* HoleReader.read: the reader after the call and the length of the buffer
hole_reader_read(h, size) ==
    IF h.eof
    THEN [h |-> h, len |-> 0]
    ELSE LET got(n) ==
                 [h   |-> [advance(h, n) EXCEPT
                              !.fdpos = @ + n,
                              !.eof = IF n = 0 THEN TRUE ELSE @],
                  len |-> n]
         IN  got(Min(size, IF h.fdpos < h.size THEN h.size - h.fdpos ELSE 0))

\* DataSection.read of a section with a size
data_section_read(h, max_read) ==
    LET read_size == Min(max_read, h.section.remaining)
        taken(r) ==
            [h   |-> [r.h EXCEPT !.section.remaining = @ - r.len],
             len |-> r.len]
    IN  IF read_size = 0
        THEN [h |-> h, len |-> 0]
        ELSE taken(hole_reader_read(h, read_size))

\* HoleSection.read
hole_section_read(h, max_read) ==
    LET read_size == Min(max_read, h.section.remaining)
    IN  IF read_size = 0
        THEN [h |-> h, len |-> 0]
        ELSE [h   |-> [advance(h, read_size) EXCEPT
                          !.section.remaining = @ - read_size],
              len |-> read_size]

\* HoleSection.skip
hole_section_skip(h) ==
    [h   |-> [advance(h, h.section.remaining) EXCEPT !.section.remaining = 0],
     len |-> h.section.remaining]

\* ------------------------------------------------------------ state machine
VARIABLES
    layers,      \* ChunkWriter._layers
    total_size,  \* ChunkWriter._total_size
    persisted,   \* the chunk store: the chunks handed to persist_chunk, in order
    seals,       \* history: the chunks sealed by wrap_up_layer
    residuals,   \* history: what write_layer_zeros(layer + 1, ...) returned to
                 \* each layer during the last writer call
    stream,      \* history: the logical bytes handed to write / write_zeros
    data_calls,  \* history: number of write calls
    zero_calls,  \* history: number of write_zeros calls
    phase,       \* "open", "wrapped" (wrap_up returned), "failed" (it raised)
    error,       \* the exception raised by the writer, "" if none
    intro_hash,  \* the value returned by wrap_up
    block_size,  \* the argument of wrap_up
    reader,      \* the ChunkReader built from intro_hash and the unlock key
    rd,          \* the last read_at call and its outcome
    tampered,    \* history: the change made to a stored chunk, if any
    mem,         \* a ChunkCacheMemory on its own and the outcome of its calls
    ctor,        \* a layer_shape / ChunkWriter.__init__ call and its outcome
    hole         \* a HoleReader, its file and the section being consumed

chunk_vars == << layers, total_size, persisted, seals, residuals, stream,
                 data_calls, zero_calls, phase, error, intro_hash, block_size, reader,
                 rd, tampered >>

vars == << layers, total_size, persisted, seals, residuals, stream,
           data_calls, zero_calls, phase, error, intro_hash, block_size, reader, rd,
           tampered, mem, ctor, hole >>

writer == [layers |-> layers, persisted |-> persisted, seals |-> seals,
           err |-> "", residuals |-> << >>]

NoRead == [done |-> FALSE, calls |-> 0, offset |-> 0, size |-> 0, err |-> "",
           data |-> << >>, snippets |-> << >>, iterations |-> 0,
           opened |-> << >>]

NoTamper == [done |-> FALSE, name |-> << >>, field |-> 0, bit |-> 0]

\* the data arguments tried on write: runs of one byte, of length 0..n
ByteRuns(n) == {[i \in 1..k |-> b] : k \in 0..n, b \in Bytes}

\* a new ChunkWriter, no reader yet
WriterInit ==
    /\ layers = NewWriter.layers
    /\ total_size = 0
    /\ persisted = NewWriter.persisted
    /\ seals = NewWriter.seals
    /\ residuals = NewWriter.residuals
    /\ stream = << >>
    /\ data_calls = 0
    /\ zero_calls = 0
    /\ phase = "open"
    /\ error = ""
    /\ intro_hash = None
    /\ block_size = 0
    /\ reader = NoReader
    /\ rd = NoRead
    /\ tampered = NoTamper

Init ==
    /\ WriterInit
    /\ mem = NoMem
    /\ ctor = NoCtor
    /\ hole = NoHole

\* the writer's fields after a call that left the writer w; returned is the
\* phase when the call returned, "failed" the phase when it raised
WriterBecomes(w, returned) ==
    /\ layers' = w.layers
    /\ persisted' = w.persisted
    /\ seals' = w.seals
    /\ residuals' = w.residuals
    /\ error' = w.err
    /\ phase' = IF w.err = "" THEN returned ELSE "failed"

\* ChunkWriter.write(data)
Write(data) ==
    /\ phase = "open"
    /\ data_calls + zero_calls < MaxCalls
    /\ total_size + Len(data) <= MaxTotal
    /\ WriterBecomes(writer_write(writer, data), "open")
    /\ total_size' = total_size + Len(data)
    /\ stream' = stream \o data
    /\ data_calls' = data_calls + 1
    /\ UNCHANGED << zero_calls, intro_hash, block_size, reader, rd, tampered,
                    mem, ctor, hole >>

\* ChunkWriter.write_zeros(size)
WriteZeros(size) ==
    /\ phase = "open"
    /\ data_calls + zero_calls < MaxCalls
    /\ total_size + size <= MaxTotal
    /\ WriterBecomes(writer_write_zeros(writer, size), "open")
    /\ total_size' = total_size + size
    /\ stream' = stream \o Zeros(size)
    /\ zero_calls' = zero_calls + 1
    /\ UNCHANGED << data_calls, intro_hash, block_size, reader, rd, tampered,
                    mem, ctor, hole >>

\* ChunkWriter.wrap_up(block_size)
WrapUp(bs) ==
    /\ phase = "open"
    /\ LET returned(r) ==
               /\ WriterBecomes(r.w, "wrapped")
               /\ total_size' = r.total_size
               /\ intro_hash' = r.intro_hash
       IN  returned(writer_wrap_up(writer, total_size, bs))
    /\ block_size' = bs
    /\ UNCHANGED << stream, data_calls, zero_calls, reader, rd, tampered,
                    mem, ctor, hole >>

\* ChunkReader(intro_hash, unlock_key, loader, cache)
OpenReader(cache) ==
    /\ phase = "wrapped"
    /\ ~reader.open
    /\ reader.err = ""
    /\ reader' = [ChunkReader(persisted, intro_hash, unlock_key, cache)
                     EXCEPT !.opened = << >>]
    /\ UNCHANGED << layers, total_size, persisted, seals, residuals, stream,
                    data_calls, zero_calls, phase, error, intro_hash,
                    block_size, rd, tampered, mem, ctor, hole >>

\* the size arguments tried on a reader
ReadSizes == (0..MaxRead) \cup {Len(stream), reader.total_size,
                                reader.total_size + 1}

\* ChunkReader.read_at(offset, size)
ReadAt(offset, size) ==
    /\ reader.open
    /\ LET returned(r) ==
               /\ rd' = [done |-> TRUE, calls |-> rd.calls + 1,
                         offset |-> offset, size |-> size,
                         err |-> r.err, data |-> r.data,
                         snippets |-> r.snippets,
                         iterations |-> r.iterations,
                         opened |-> r.rdr.opened]
               /\ reader' = [reader EXCEPT !.cache = r.rdr.cache]
       IN  returned(read_at(reader, persisted, offset, size))
    /\ UNCHANGED << layers, total_size, persisted, seals, residuals, stream,
                    data_calls, zero_calls, phase, error, intro_hash, block_size,
                    tampered, mem, ctor, hole >>

\* a writer, then a reader with ChunkCacheNone; a read leaves that reader as
\* it was, so one read per run shows every outcome
Next ==
    \/ \E data \in ByteRuns(MaxWrite) : Write(data)
    \/ \E size \in 0..MaxZeros : WriteZeros(size)
    \/ \E bs \in BLOCK_SIZES : WrapUp(bs)
    \/ OpenReader(ChunkCacheNone)
    \/ \E offset \in 0..(reader.total_size + 1), size \in ReadSizes :
          ~rd.done /\ ReadAt(offset, size)

Spec == Init /\ [][Next]_vars

\* ------------------------------------------------- a changed chunk store
\* one bit of a byte changed: a byte that differs from every written byte
flip_byte(b) == << b, b >>

\* bit number bit of the integer n changed
flip_int(n, bit) ==
    IF (n \div Pow2(bit)) % 2 = 1 THEN n - Pow2(bit) ELSE n + Pow2(bit)

\* the bytes of a chunk (magic, version, compressed, content_len, content_iv,
\* ciphertext) with one bit of the given field changed
flip_chunk(chunk, field, bit) ==
    CASE field = 1 -> [chunk EXCEPT ![1][bit + 1] = flip_byte(@)]
      [] field \in {2, 3, 4} ->
            [chunk EXCEPT ![field] = IntT(flip_int(IntOf(@), bit))]
      [] field = 5 -> [chunk EXCEPT ![5] = << @, IntT(bit + 1) >>]
      [] field = 6 -> [chunk EXCEPT ![6][3][bit + 1] = flip_byte(@)]

CHUNK_FIELDS == 6

\* one bit of the stored chunk called name is changed behind the reader
Tamper(name, field, bit) ==
    /\ reader.open
    /\ ~tampered.done
    /\ ~rd.done
    /\ \E i \in 1..Len(persisted) :
          persisted[i].name = name /\ persisted[i].layer >= 0
    /\ persisted' =
          [i \in 1..Len(persisted) |->
              IF persisted[i].name = name
              THEN [persisted[i] EXCEPT !.data = flip_chunk(@, field, bit)]
              ELSE persisted[i]]
    /\ tampered' = [done |-> TRUE, name |-> name, field |-> field,
                    bit |-> bit]
    /\ UNCHANGED << layers, total_size, seals, residuals, stream, data_calls,
                    zero_calls, phase, error, intro_hash, block_size,
                    reader, rd, mem, ctor, hole >>

StoredNames == {persisted[i].name : i \in 1..Len(persisted)}

\* a writer of a short stream, a reader, one changed chunk and one read
NextTamper ==
    \/ \E data \in ByteRuns(MaxWrite) :
          total_size + Len(data) <= MaxStoreTotal /\ Write(data)
    \/ \E bs \in BLOCK_SIZES : WrapUp(bs)
    \/ OpenReader(ChunkCacheNone)
    \/ \E name \in StoredNames, field \in 1..CHUNK_FIELDS, bit \in 0..1 :
          Tamper(name, field, bit)
    \/ \E offset \in 0..(reader.total_size - 1), size \in 1..MaxRead :
          tampered.done /\ ~rd.done /\ ReadAt(offset, size)

SpecTamper == Init /\ [][NextTamper]_vars

\* ------------------------------------------------- a reader with a cache
\* a writer of a short stream, a reader with a ChunkCacheMemory and a
\* sequence of reads
NextCached ==
    \/ \E data \in ByteRuns(MaxWrite) :
          /\ data_calls < MaxStoreCalls
          /\ total_size + Len(data) <= MaxStoreTotal
          /\ Write(data)
    \/ \E bs \in BLOCK_SIZES : WrapUp(bs)
    \/ \E max_cached \in 0..MaxCached :
          OpenReader(ChunkCacheMemory(max_cached))
    \/ \E offset \in 0..(reader.total_size - 1), size \in 1..MaxRead :
          rd.calls < MaxReads /\ ReadAt(offset, size)

SpecCached == Init /\ [][NextCached]_vars

\* ------------------------------------------------- a cache on its own
\* the names and contents handed to set and get
CacheKeys == {sha256(IntT(i)) : i \in 1..MaxKeys}
CacheContents == {<< b >> : b \in Bytes}

\* ChunkCacheMemory(max_cached)
NewCache(max_cached) ==
    /\ ~mem.cache.memory
    /\ mem' = [mem EXCEPT !.cache = ChunkCacheMemory(max_cached)]
    /\ UNCHANGED << chunk_vars, ctor, hole >>

\* ChunkCacheMemory.set(content_hash, content); after a KeyError the keys
\* popped so far stay popped and nothing is inserted
CacheSet(content_hash, content) ==
    /\ mem.cache.memory
    /\ mem.sets < MaxSets
    /\ LET returned(r) ==
               mem' = [mem EXCEPT !.cache = r.cache, !.err = r.err,
                                  !.sets = @ + 1]
       IN  returned(cache_set(mem.cache, content_hash, content))
    /\ UNCHANGED << chunk_vars, ctor, hole >>

\* ChunkCacheMemory.get(content_hash)
CacheGet(content_hash) ==
    /\ mem.cache.memory
    /\ mem' = [mem EXCEPT !.got = cache_get(mem.cache, content_hash)]
    /\ UNCHANGED << chunk_vars, ctor, hole >>

NextCache ==
    \/ \E max_cached \in 0..MaxCached : NewCache(max_cached)
    \/ \E content_hash \in CacheKeys, content \in CacheContents :
          CacheSet(content_hash, content)
    \/ \E content_hash \in CacheKeys : CacheGet(content_hash)

SpecCache == Init /\ [][NextCache]_vars

\* ------------------------------------------------- layer shapes, unscaled
\* layer_shape(size_2, num_layers) with 32-byte entries, as ChunkReader
\* calls it with the num_layers of an intro
LayerShapeCall(size, num_layers) ==
    /\ ctor' = [size_2 |-> size, num_layers |-> num_layers,
                shape |-> layer_shape_of(size, num_layers, sha256_size),
                outcome |-> "shape"]
    /\ UNCHANGED << chunk_vars, mem, hole >>

\* ChunkWriter(size_2, ...): the 16-slot shape and the assertion on its
\* last slot
NewChunkWriter(size) ==
    /\ LET asserted(shape) ==
               ctor' = [size_2 |-> size, num_layers |-> NUM_LAYER_SLOTS,
                        shape |-> shape,
                        outcome |-> IF shape[NUM_LAYER_SLOTS].shift > OFFSET_BITS
                                    THEN "constructed"
                                    ELSE "AssertionError"]
       IN  asserted(layer_shape_of(size, NUM_LAYER_SLOTS, sha256_size))
    /\ UNCHANGED << chunk_vars, mem, hole >>

NextShape ==
    \/ \E size \in 0..MaxSize2, num_layers \in 1..NUM_LAYER_SLOTS :
          LayerShapeCall(size, num_layers)
    \/ \E size \in 0..MaxSize2 : NewChunkWriter(size)

SpecShape == Init /\ [][NextShape]_vars

\* ------------------------------------------------- iterating a HoleReader
\* the files tried: every layout of data and holes of up to MaxFile units
Files == UNION {[1..n -> {"data", "hole"}] : n \in 0..MaxFile}

\* the history of sections is kept up to this length
MaxSections(h) == Len(h.file) + 2

\* HoleReader(fname)
OpenHole(file) ==
    /\ hole.pc = "closed"
    /\ hole' = HoleReader(file)
    /\ UNCHANGED << chunk_vars, mem, ctor >>

\* the body of HoleReader.__iter__ from the loop test to the yield
iter_loop(h) ==
    IF h.eof
    THEN [h EXCEPT !.pc = "stopped", !.section = NoSection]
    ELSE LET yield(section_size) ==
                 [h EXCEPT
                     !.pc = "section",
                     !.fdpos = h.offset,
                     !.section = [all_zero  |-> ~h.in_data,
                                  remaining |-> section_size,
                                  ended     |-> FALSE],
                     !.yielded = Min(@ + 1, MaxSections(h)),
                     !.sections =
                         IF Len(@) < MaxSections(h)
                         THEN Append(@, [all_zero |-> ~h.in_data,
                                         size     |-> section_size,
                                         start    |-> h.offset])
                         ELSE @]
         IN  yield(detect_section_size(h))

\* next() on the iterator: the first call enters the loop, a later call
\* resumes after the yield, once the section was consumed to its end
IterNext ==
    /\ \/ hole.pc = "start"
       \/ hole.pc = "section" /\ hole.section.ended
    /\ hole' = iter_loop(IF hole.pc = "section"
                         THEN [hole EXCEPT !.in_data = ~@]
                         ELSE hole)
    /\ UNCHANGED << chunk_vars, mem, ctor >>

\* section.read(max_read); the consumer ends the section when it gets b''
SectionRead(max_read) ==
    /\ hole.pc = "section"
    /\ ~hole.section.ended
    /\ LET returned(r) ==
               hole' = [r.h EXCEPT !.consumed = @ + r.len,
                                   !.section.ended = (r.len = 0)]
       IN  returned(IF hole.section.all_zero
                    THEN hole_section_read(hole, max_read)
                    ELSE data_section_read(hole, max_read))
    /\ UNCHANGED << chunk_vars, mem, ctor >>

\* section.skip() on a hole section, which ends the section
SectionSkip ==
    /\ hole.pc = "section"
    /\ ~hole.section.ended
    /\ hole.section.all_zero
    /\ LET returned(r) ==
               hole' = [r.h EXCEPT !.consumed = @ + r.len,
                                   !.section.ended = TRUE]
       IN  returned(hole_section_skip(hole))
    /\ UNCHANGED << chunk_vars, mem, ctor >>

NextHole ==
    \/ \E file \in Files : OpenHole(file)
    \/ IterNext
    \/ \E max_read \in 1..MaxChunk : SectionRead(max_read)
    \/ SectionSkip

\* the consumer keeps going: it reads or skips a section it was given and
\* asks for the next one
SpecHole == Init /\ [][NextHole]_vars /\ WF_vars(NextHole)

\* ----------------------------------------------------------------- helpers
\* the logical stream padded with zero bytes to total_size
Padded == stream \o Zeros(total_size - Len(stream))

\* the smallest multiple of m that is >= n
NextMultiple(n, m) ==
    CHOOSE k \in n..(n + m) :
        /\ k % m = 0
        /\ \A j \in n..(k - 1) : j % m # 0

\* the intro as a reader decodes it from the last persisted chunk
WrittenIntro ==
    as_intro(from_encrypted_stream(persisted[Len(persisted)].data, intro_hash,
                                   intro_key, INTRO_MAX_CHUNK).content)

\* the plaintext of a persisted layer chunk
StoredContent(name) ==
    from_encrypted_stream(open_stream(persisted, name), name, layer_key,
                          max_size + 256).content

\* the names held by the payload of an upper-layer chunk
Entries(content) ==
    {SubSeq(content, (k - 1) * upper_entry_size + 1, k * upper_entry_size) :
        k \in 1..(Len(content) \div upper_entry_size)}

\* the names of the persisted chunks reachable from the chunk name of layer
RECURSIVE Reachable(_, _)
Reachable(name, layer) ==
    IF name = ZERO_HASH \/ ~has_chunk(persisted, name) THEN {}
    ELSE IF layer = 0 THEN {name}
    ELSE {name} \cup
         UNION {Reachable(e, layer - 1) : e \in Entries(StoredContent(name))}

\* the seal records of one layer, in order
SealsOf(layer) == SelectSeq(seals, LAMBDA s : s.layer = layer)

\* ------------------------------------------------------------------ claims

\* C1: a reader built from the returned intro_hash returns the written
\* bytes B from read_at(0, |B|), and B followed by zero bytes up to the
\* block boundary from read_at(0, total_size).
C1_RoundTrip ==
    (rd.done /\ rd.offset = 0) =>
        /\ rd.size = Len(stream) => (rd.err = "" /\ rd.data = stream)
        /\ rd.size = total_size => (rd.err = "" /\ rd.data = Padded)

\* C2: after wrap_up returns, every layer the writer holds has an empty
\* open encoder.
C2_AllLayersSealed ==
    phase = "wrapped" => \A l \in 1..Len(layers) : is_empty(layers[l])

\* C3: the intro records num_layers = number of layers of the writer, and
\* top_chunk_hash is the name sealed from the top layer, from which every
\* persisted layer chunk is reachable.
C3_IntroNamesTheRoot ==
    phase = "wrapped" =>
        LET names_root(intro, L, top) ==
                /\ intro.err = ""
                /\ intro.num_layers = L
                /\ Len(top) > 0
                /\ intro.top_chunk_hash = top[Len(top)].ref
                /\ \A i \in 1..Len(persisted) :
                      persisted[i].layer >= 0 =>
                          persisted[i].name \in
                              Reachable(intro.top_chunk_hash, L - 1)
        IN  names_root(WrittenIntro, Len(layers), SealsOf(Len(layers) - 1))

\* C4: read_at(o, s) returns P[o : min(o + s, |P|)] without failing, for
\* every offset 0 <= o <= |P| and every size s >= 0 of the padded stream P.
C4_RandomAccess ==
    (rd.done /\ rd.offset <= total_size) =>
        /\ rd.err = ""
        /\ rd.data = Slice(Padded, rd.offset, rd.offset + rd.size)

C6_SparseEquivalence ==
    phase = "wrapped" =>
        intro_hash =
            writer_wrap_up(writer_write(NewWriter, stream), Len(stream),
                           block_size).intro_hash

\* C7: after one write_zeros(N), N a positive multiple of block_size, and
\* wrap_up, top_chunk_hash is ZERO_HASH and the intro is the only chunk
\* persisted.
C7_AllZeroRepository ==
    (/\ phase = "wrapped"
     /\ data_calls = 0
     /\ zero_calls = 1
     /\ Len(stream) > 0
     /\ Len(stream) % block_size = 0) =>
        /\ WrittenIntro.top_chunk_hash = ZERO_HASH
        /\ Len(persisted) = 1

\* C8: when only write_zeros calls were made, their total a multiple of the
\* chunk size, wrap_up leaves no layer-0 chunk among the persisted chunks.
C8_NoZeroDataChunks ==
    (/\ phase \in {"wrapped", "failed"}
     /\ data_calls = 0
     /\ Len(stream) % max_size = 0) =>
        \A i \in 1..Len(persisted) : persisted[i].layer # 0

C8_Witness ==
    /\ phase = "wrapped"
    /\ data_calls = 0
    /\ zero_calls >= 2
    /\ Len(stream) = 2 * max_size
    /\ \E i \in 1..Len(persisted) : persisted[i].layer >= 1

\* C9: a sealed chunk named by the all-zero-chunk hash is not persisted and
\* is referred to as ZERO_HASH; every other sealed chunk is persisted under
\* its own name before that name goes to the parent layer, so no stored or
\* open upper-layer payload holds the all-zero-chunk hash.
C9_ZeroChunkReplaced ==
    /\ \A i \in 1..Len(seals) :
          LET s == seals[i]
          IN  IF s.hash = all_zero_chunk_hash
              THEN /\ s.ref = ZERO_HASH
                   /\ ~has_chunk(persisted, s.hash)
              ELSE /\ s.ref = s.hash
                   /\ s.stored >= 1
                   /\ persisted[s.stored].name = s.hash
                   /\ persisted[s.stored].layer = s.layer
    /\ \A i \in 1..Len(persisted) :
          persisted[i].layer >= 1 =>
              all_zero_chunk_hash \notin Entries(StoredContent(persisted[i].name))
    /\ \A l \in 2..Len(layers) :
          all_zero_chunk_hash \notin Entries(layers[l].buffer)

C9_Witness ==
    /\ \E i \in 1..Len(seals) :
          /\ seals[i].hash = all_zero_chunk_hash
          /\ seals[i].layer >= 1
          /\ seals[i].upper
    /\ \E i \in 1..Len(seals) :
          /\ seals[i].hash # all_zero_chunk_hash
          /\ seals[i].upper

\* C10: the total_size of the intro is the smallest multiple of block_size
\* that is >= the bytes handed to write and write_zeros; the pad is shorter
\* than block_size and is empty when the sum is a multiple already.
C10_PaddedTotal ==
    phase = "wrapped" =>
        /\ WrittenIntro.total_size = NextMultiple(Len(stream), block_size)
        /\ total_size = NextMultiple(Len(stream), block_size)
        /\ total_size - Len(stream) < block_size
        /\ Len(stream) % block_size = 0 => total_size = Len(stream)

C10_Witness ==
    /\ phase = "wrapped"
    /\ Len(stream) % block_size # 0
    /\ WrittenIntro.total_size = Len(stream) + 3

\* the error from_encrypted_stream raises for a chunk with that bit changed
TamperError ==
    CASE tampered.field = 1 -> "Invalid chunk magic"
      [] tampered.field = 2 -> "Short version"
      [] tampered.field = 3 /\ tampered.bit > 0 -> "Invalid compression flag"
      [] OTHER -> "Invalid hash"

\* the chunk changed was handed to the reader by the last read_at
LoadedTampered ==
    /\ tampered.done
    /\ rd.done
    /\ \E i \in 1..Len(rd.opened) : rd.opened[i] = tampered.name

\* C11: with one bit of a stored non-intro chunk changed, in any header
\* field or in the ciphertext, the read_at that loads the chunk fails with
\* "Invalid hash", with no other error and with no data.
C11_TamperIsBadHash ==
    LoadedTampered => (rd.err = "Invalid hash" /\ rd.data = << >>)

\* C11 amended: that read_at fails and returns no data; the error is
\* "Invalid chunk magic" for a bit of the magic, "Short version" for a bit
\* of the version, "Invalid compression flag" for bits 1..7 of the
\* compressed flag, and "Invalid hash" for every other bit.
C11_TamperFails ==
    LoadedTampered => (rd.err = TamperError /\ rd.data = << >>)

C11_Witness ==
    /\ LoadedTampered
    /\ tampered.field = 6
    /\ rd.err = "Invalid hash"
    /\ Len(rd.opened) = 2
    /\ rd.opened[2] = tampered.name


\* the reader of the same store that was given a ChunkCacheNone
PlainReader == ChunkReader(persisted, intro_hash, unlock_key, ChunkCacheNone)

\* C12: over an unchanged store, every read_at of a reader with a
\* ChunkCacheMemory of any max_cached ends as the same call does on a reader
\* with ChunkCacheNone: the same data or the same error.
C12_CacheTransparent ==
    (reader.cache.memory /\ rd.done) =>
        LET same(plain) ==
                /\ rd.err = plain.err
                /\ rd.data = plain.data
        IN  same(read_at(PlainReader, persisted, rd.offset, rd.size))

C12_Witness ==
    /\ reader.cache.memory
    /\ reader.num_layers >= 2
    /\ reader.top_chunk_hash # ZERO_HASH
    /\ rd.calls >= 2
    /\ rd.err = ""
    /\ Len(rd.data) = MaxRead
    /\ rd.opened = << >>
    /\ Len(reader.cache.cache_keys) > reader.cache.max_cached


\* C13: after any sequence of set calls a ChunkCacheMemory(max_cached) holds
\* at most max_cached entries, in its key list and in its map.
C13_AtMostMaxCached ==
    (mem.cache.memory /\ mem.cache.max_cached >= 1) =>
        /\ Len(mem.cache.cache_keys) <= mem.cache.max_cached
        /\ Cardinality(DOMAIN mem.cache.cache) <= mem.cache.max_cached

\* C14: every set call returns without error and every key of the
\* insertion-order list has an entry in the map.
C14_SetNeverFails ==
    mem.cache.memory =>
        /\ mem.err = ""
        /\ \A i \in 1..Len(mem.cache.cache_keys) :
              mem.cache.cache_keys[i] \in DOMAIN mem.cache.cache


\* a ChunkWriter constructor call has returned or raised
WriterCalled == ctor.outcome \in {"constructed", "AssertionError"}

\* C15 as stated: for every size_2 >= 7 the top slot of the 16-slot shape
\* has a shift above 64 and the ChunkWriter constructor passes its assertion.
C15_TopShiftFrom7 ==
    (WriterCalled /\ ctor.size_2 >= 7) =>
        /\ ctor.shape[NUM_LAYER_SLOTS].shift > OFFSET_BITS
        /\ ctor.outcome = "constructed"

\* C15, amended: for every size_2 >= 9 the top slot of the 16-slot shape
\* has a shift above 64 and the ChunkWriter constructor passes its
\* assertion; the shift of the top slot is 15 * size_2 - 70.
C15_TopShiftFrom9 ==
    WriterCalled =>
        /\ ctor.size_2 >= 5 =>
              ctor.shape[NUM_LAYER_SLOTS].shift = 15 * ctor.size_2 - 70
        /\ ctor.size_2 >= 9 =>
              /\ ctor.shape[NUM_LAYER_SLOTS].shift > OFFSET_BITS
              /\ ctor.outcome = "constructed"

C15_Witness ==
    /\ ctor.outcome = "constructed"
    /\ ctor.size_2 = 9
    /\ ctor.shape[NUM_LAYER_SLOTS].shift = OFFSET_BITS + 1


\* C16: after a write or write_zeros call has returned, no layer holds an
\* open encoder that is full.
C16_NoFullOpenEncoder ==
    (phase = "open" /\ data_calls + zero_calls > 0) =>
        \A l \in 1..Len(layers) : ~is_full(layers[l])


\* every residual handed down during the last write_zeros call is at least 0
\* and smaller than the entry cover of the layer it came from
ResidualsInRange ==
    \A i \in 1..Len(residuals) :
        /\ residuals[i].zeros >= 0
        /\ residuals[i].zeros <
              entry_cover_size(writer_layer_shape[residuals[i].layer + 2])

\* C17: every write_zeros call on a writer reached by write and write_zeros
\* calls returns without an AssertionError (entries_free >= entries_needed
\* at every layer, residual 0 at layer 0), and the residual each layer gets
\* from the layer above is smaller than that layer's entry cover.
C17_WriteZerosAsserts ==
    [][zero_calls' # zero_calls =>
          /\ error' = ""
          /\ phase' = "open"
          /\ ResidualsInRange']_vars

C17_Witness ==
    /\ phase = "open"
    /\ data_calls >= 1
    /\ zero_calls >= 1
    /\ Len(stream) > 0
    /\ stream[1] = DataByte
    /\ Len(residuals) >= 2
    /\ residuals[Len(residuals)].layer = 0
    /\ residuals[Len(residuals)].zeros > 0
    /\ Len(layers) >= 2


\* the stream offset at which iteration i of the last read_at began
IterationStart(i) == rd.offset + Len(join(SubSeq(rd.snippets, 1, i - 1)))

\* the end of the layer-0 chunk that covers offset
ChunkEnd(offset) == (offset \div max_size + 1) * max_size

\* ceil(size / S) + 1
IterationBound(size) == (size + max_size - 1) \div max_size + 1

\* a read_at(offset, size) with offset < total_size has ended
ReadInside == rd.done /\ rd.offset < reader.total_size

\* C18 as stated: every iteration of read_at obtains at least one byte and
\* none beyond the end of the layer-0 chunk that covers its offset, and the
\* loop ends after at most ceil(size / S) + 1 iterations.
C18_IterationPerChunk ==
    ReadInside =>
        /\ rd.iterations = Len(rd.snippets)
        /\ \A i \in 1..Len(rd.snippets) :
              /\ Len(rd.snippets[i]) >= 1
              /\ IterationStart(i) + Len(rd.snippets[i])
                    <= ChunkEnd(IterationStart(i))
        /\ rd.iterations <= IterationBound(rd.size)

\* C18, amended: every iteration that completes obtains at least one byte
\* and, unless top_chunk_hash is ZERO_HASH, none beyond the end of the
\* layer-0 chunk that covers its offset; with top_chunk_hash = ZERO_HASH one
\* iteration serves the whole request. Only the last iteration can raise,
\* and the loop ends after at most ceil(size / S) + 1 iterations.
C18_IterationBound ==
    ReadInside =>
        /\ rd.iterations =
              Len(rd.snippets) + (IF rd.err # "" /\ rd.size > 0 THEN 1 ELSE 0)
        /\ \A i \in 1..Len(rd.snippets) :
              /\ Len(rd.snippets[i]) >= 1
              /\ reader.top_chunk_hash # ZERO_HASH =>
                    IterationStart(i) + Len(rd.snippets[i])
                        <= ChunkEnd(IterationStart(i))
        /\ reader.top_chunk_hash = ZERO_HASH => rd.iterations <= 1
        /\ rd.iterations <= IterationBound(rd.size)

C18_Witness ==
    /\ ReadInside
    /\ rd.err = ""
    /\ reader.top_chunk_hash # ZERO_HASH
    /\ rd.offset % max_size # 0
    /\ rd.iterations = IterationBound(rd.size)
    /\ rd.iterations >= 2


\* the end of the extent of one kind that starts at offset: the next unit
\* of the other kind or the end of the file
ExtentEnd(file, offset, all_zero) ==
    LET kind == IF all_zero THEN "hole" ELSE "data"
    IN  CHOOSE j \in offset..Len(file) :
            /\ j = Len(file) \/ file[j + 1] # kind
            /\ \A k \in (offset + 1)..j : file[k] = kind

\* C19: the sections yielded alternate between data and hole, the first is
\* of the kind found at offset 0, each begins where the one before ended and
\* is as long as the distance to the next transition or to the end of the
\* file, and when the iteration stops the lengths read and skipped sum to
\* the file size.
C19_SectionsAlternate ==
    /\ \A i \in 1..Len(hole.sections) :
          /\ hole.sections[i].all_zero =
                (IF i = 1
                 THEN ~(hole.size > 0 /\ hole.file[1] = "data")
                 ELSE ~hole.sections[i - 1].all_zero)
          /\ hole.sections[i].start =
                (IF i = 1 THEN 0
                 ELSE hole.sections[i - 1].start + hole.sections[i - 1].size)
          /\ hole.sections[i].size =
                ExtentEnd(hole.file, hole.sections[i].start,
                          hole.sections[i].all_zero)
                    - hole.sections[i].start
    /\ hole.pc = "stopped" =>
          /\ hole.consumed = hole.size
          /\ hole.offset = hole.size

C19_Witness ==
    /\ hole.pc = "stopped"
    /\ hole.yielded = 3
    /\ hole.sections[1].all_zero
    /\ hole.sections[2].size = 2
    /\ hole.consumed = MaxFile

\* C20: iterating a HoleReader over any finite seekable file, every section
\* consumed to its end, comes to a stop.
C20_IterationStops == (hole.pc # "closed") ~> (hole.pc = "stopped")


\* the logical bytes covered by the entries of the open encoders of layers
\* 1..n of the writer: the entries of a layer times its entry cover
RECURSIVE OpenCover(_)
OpenCover(n) ==
    IF n = 0 THEN 0
    ELSE (Len(layers[n].buffer) \div writer_layer_shape[n].entry_size)
             * entry_cover_size(writer_layer_shape[n])
         + OpenCover(n - 1)

\* C21: after every write or write_zeros call that returned, total_size is
\* the sum over the existing layers of the entries in the layer's open
\* encoder times the layer's entry cover.
C21_OpenEncodersCover ==
    phase = "open" => total_size = OpenCover(Len(layers))

C21_Witness ==
    /\ phase = "open"
    /\ data_calls >= 1
    /\ zero_calls >= 1
    /\ Len(stream) > 0
    /\ stream[1] = DataByte
    /\ Len(layers) >= 2
    /\ \A l \in 1..Len(layers) : ~is_empty(layers[l])
    /\ total_size = OpenCover(Len(layers))


\* the names handed to persist_chunk before the i-th call
PersistedBefore(i) == {persisted[j].name : j \in 1..(i - 1)}

\* every entry of the payload content is ZERO_HASH or one of the names
RefersWithin(content, names) ==
    \A e \in Entries(content) : e = ZERO_HASH \/ e \in names

\* the plaintext of the i-th persisted chunk, decoded with key
PersistedContent(i, key, max_chunk_size) ==
    from_encrypted_stream(persisted[i].data, persisted[i].name, key,
                          max_chunk_size).content

\* C22: at every point of a writer run every entry other than ZERO_HASH in
\* an open upper-layer encoder names a persisted chunk, every such entry of
\* a persisted upper-layer chunk names a chunk persisted before it, and the
\* intro is persisted last, after the chunk its top_chunk_hash names.
C22_ChildrenFirst ==
    /\ \A l \in 2..Len(layers) :
          RefersWithin(layers[l].buffer, PersistedBefore(Len(persisted) + 1))
    /\ \A i \in 1..Len(persisted) :
          /\ persisted[i].layer >= 1 =>
                RefersWithin(PersistedContent(i, layer_key, max_size + 256),
                             PersistedBefore(i))
          /\ persisted[i].layer < 0 =>
                /\ i = Len(persisted)
                /\ phase = "wrapped"
                /\ LET top(intro) ==
                           /\ intro.err = ""
                           /\ \/ intro.top_chunk_hash = ZERO_HASH
                              \/ intro.top_chunk_hash \in PersistedBefore(i)
                   IN  top(as_intro(PersistedContent(i, intro_key,
                                                     INTRO_MAX_CHUNK)))

C22_Witness ==
    /\ phase = "wrapped"
    /\ Len(persisted) >= 4
    /\ persisted[Len(persisted)].layer < 0
    /\ persisted[Len(persisted) - 1].layer >= 1
    /\ WrittenIntro.top_chunk_hash = persisted[Len(persisted) - 1].name
    /\ \E l \in 2..Len(layers) : ~is_empty(layers[l])


\* C23: after write and write_zeros calls with total_size > 0 the highest
\* layer has a non-empty open encoder and was never sealed, and a wrap_up
\* that follows returns with an intro whose top_chunk_hash is ZERO_HASH or
\* the name of a persisted chunk.
C23_TopLayerOpen ==
    total_size > 0 =>
        /\ phase = "open" =>
              /\ Len(layers) > 0
              /\ ~is_empty(layers[Len(layers)])
              /\ SealsOf(Len(layers) - 1) = << >>
        /\ phase # "open" =>
              /\ phase = "wrapped"
              /\ LET defined(intro) ==
                         /\ intro.err = ""
                         /\ Len(intro.top_chunk_hash) = upper_entry_size
                         /\ \/ intro.top_chunk_hash = ZERO_HASH
                            \/ has_chunk(persisted, intro.top_chunk_hash)
                 IN  defined(WrittenIntro)

C23_Witness ==
    /\ phase = "open"
    /\ total_size > max_size
    /\ data_calls >= 1
    /\ zero_calls >= 1
    /\ Len(layers) >= 3
    /\ ~is_empty(layers[Len(layers)])
    /\ SealsOf(Len(layers) - 1) = << >>
    /\ SealsOf(Len(layers) - 2) # << >>

=============================================================================
